---- MODULE Spec2Model ----
(***************************************************************************)
(* appimage-finder: the extraction / classification / deduplication        *)
(* pipeline of src/src/extractor.rs, src/src/filter.rs and src/src/main.rs.*)
(*                                                                         *)
(* Strings are TLA+ strings, read character by character with SubSeq.      *)
(* Option<T> is a sequence of length 0 (None) or 1 (Some).                 *)
(***************************************************************************)
EXTENDS Integers, Sequences, FiniteSets, TLC

VARIABLES args, results, pc, fileNo, linesRead, hist, event, appimages, pushed,
          outcome, dedups, fnIn, fnOut

vars == <<args, results, pc, fileNo, linesRead, hist, event, appimages, pushed,
          outcome, dedups, fnIn, fnOut>>

pipeVars == <<args, results, pc, fileNo, linesRead, hist, event, appimages,
              pushed, outcome, dedups>>

(***************************************************************************)
(* Option and string helpers                                               *)
(***************************************************************************)
None == <<>>

Some(x) == <<x>>

IsSome(o) == Len(o) = 1

UnwrapOr(o, d) == IF Len(o) = 1 THEN o[1] ELSE d

Char(s, i) == IF 1 <= i /\ i <= Len(s) THEN SubSeq(s, i, i) ELSE ""

Digits == {"0", "1", "2", "3", "4", "5", "6", "7", "8", "9"}

IsDigit(c) == c \in Digits

EndsWith(s, suf) ==
    /\ Len(s) >= Len(suf)
    /\ SubSeq(s, Len(s) - Len(suf) + 1, Len(s)) = suf

StartsWith(s, pre) ==
    /\ Len(s) >= Len(pre)
    /\ SubSeq(s, 1, Len(pre)) = pre

Contains(s, pat) ==
    \E i \in 1..(Len(s) - Len(pat) + 1) : SubSeq(s, i, i + Len(pat) - 1) = pat

LowerChar(c) ==
    CASE c = "A" -> "a" [] c = "B" -> "b" [] c = "C" -> "c" [] c = "D" -> "d"
      [] c = "E" -> "e" [] c = "F" -> "f" [] c = "G" -> "g" [] c = "H" -> "h"
      [] c = "I" -> "i" [] c = "J" -> "j" [] c = "K" -> "k" [] c = "L" -> "l"
      [] c = "M" -> "m" [] c = "N" -> "n" [] c = "O" -> "o" [] c = "P" -> "p"
      [] c = "Q" -> "q" [] c = "R" -> "r" [] c = "S" -> "s" [] c = "T" -> "t"
      [] c = "U" -> "u" [] c = "V" -> "v" [] c = "W" -> "w" [] c = "X" -> "x"
      [] c = "Y" -> "y" [] c = "Z" -> "z" [] OTHER -> c

RECURSIVE ToLowercase(_)
ToLowercase(s) ==
    IF Len(s) = 0 THEN ""
    ELSE LowerChar(SubSeq(s, 1, 1)) \o ToLowercase(SubSeq(s, 2, Len(s)))

\* str::split(ch).next(): the part before the first ch, the whole string
\* when ch does not occur.
RECURSIVE SplitFirst(_, _)
SplitFirst(s, ch) ==
    IF Len(s) = 0 \/ SubSeq(s, 1, 1) = ch THEN ""
    ELSE SubSeq(s, 1, 1) \o SplitFirst(SubSeq(s, 2, Len(s)), ch)

\* The index just past the maximal run of digits of s that starts at i
\* (i itself when s[i] is no digit): what a greedy \d+ consumes.
RECURSIVE DigitRunEnd(_, _)
DigitRunEnd(s, i) ==
    IF IsDigit(Char(s, i)) THEN DigitRunEnd(s, i + 1) ELSE i

(***************************************************************************)
(* filter.rs: extract_architecture                                         *)
(***************************************************************************)
X86Tokens == {"x86_64", "x86-64", "amd64", "64bit", "x64", "x86"}

ArmTokens == {"aarch64", "arm64", "ARM64"}

extract_architecture(filename) ==
    IF \E t \in X86Tokens : Contains(filename, t) THEN Some("x86_64")
    ELSE IF \E t \in ArmTokens : Contains(filename, t) THEN Some("aarch64")
    ELSE None

(***************************************************************************)
(* filter.rs: extract_version_4digit                                       *)
(* The regex (\d+)\.(\d+)\.(\d+)(?:\.(\d+))? tried at one start position:  *)
(* the four capture groups (None for an absent fourth), or <<>> when the   *)
(* pattern does not match there.                                           *)
(***************************************************************************)
VersionMatchAt(s, i) ==
    LET e1 == DigitRunEnd(s, i)
        e2 == DigitRunEnd(s, e1 + 1)
        e3 == DigitRunEnd(s, e2 + 1)
        e4 == DigitRunEnd(s, e3 + 1)
    IN  IF /\ e1 > i
           /\ Char(s, e1) = "."
           /\ e2 > e1 + 1
           /\ Char(s, e2) = "."
           /\ e3 > e2 + 1
        THEN <<Some(SubSeq(s, i, e1 - 1)),
               Some(SubSeq(s, e1 + 1, e2 - 1)),
               Some(SubSeq(s, e2 + 1, e3 - 1)),
               IF Char(s, e3) = "." /\ e4 > e3 + 1
               THEN Some(SubSeq(s, e3 + 1, e4 - 1))
               ELSE None>>
        ELSE <<>>

\* Variant: the pattern is tried at the first position only, as if anchored.
VersionCaptures_Anchored(s, i) == VersionMatchAt(s, i)

\* Regex::captures: the leftmost start position that matches.
RECURSIVE VersionCaptures(_, _)
VersionCaptures(s, i) ==
    IF i > Len(s) THEN <<>>
    ELSE IF VersionMatchAt(s, i) # <<>> THEN VersionMatchAt(s, i)
    ELSE VersionCaptures(s, i + 1)

\* parts.join("."), a missing group written as "0".
JoinParts(m) ==
    UnwrapOr(m[1], "0") \o "." \o UnwrapOr(m[2], "0") \o "." \o
    UnwrapOr(m[3], "0") \o "." \o UnwrapOr(m[4], "0")

extract_version_4digit(tag, filename) ==
    IF IsSome(tag) /\ VersionCaptures(tag[1], 1) # <<>>
    THEN JoinParts(VersionCaptures(tag[1], 1))
    ELSE IF IsSome(filename) /\ VersionCaptures(filename[1], 1) # <<>>
    THEN JoinParts(VersionCaptures(filename[1], 1))
    ELSE "1.0.0.0"

(***************************************************************************)
(* filter.rs: get_package_name                                             *)
(***************************************************************************)
get_package_name(repo) ==
    LET repo_lower == ToLowercase(repo)
        owner == SplitFirst(repo_lower, "/")
        repo_name == IF Len(owner) = Len(repo_lower) THEN ""
                     ELSE SubSeq(repo_lower, Len(owner) + 2, Len(repo_lower))
    IN  "io.github." \o owner \o "." \o repo_name

(***************************************************************************)
(* filter.rs: is_continuous_release and extract_version_from_filename      *)
(***************************************************************************)
Keywords == {"continuous", "continous", "latest", "nightly", "daily", "current"}

\* The tail (?:\.\d+)* from position e: the index just past the last group.
RECURSIVE MoreGroupsEnd(_, _)
MoreGroupsEnd(s, e) ==
    IF Char(s, e) = "." /\ DigitRunEnd(s, e + 1) > e + 1
    THEN MoreGroupsEnd(s, DigitRunEnd(s, e + 1))
    ELSE e

\* The regex [-_]?v?(\d+\.\d+(?:\.\d+)*) tried at start position i: capture
\* group 1, or None when the pattern does not match there.
TokenMatchAt(s, i) ==
    LET j1 == IF Char(s, i) \in {"-", "_"} THEN i + 1 ELSE i
        j2 == IF Char(s, j1) = "v" THEN j1 + 1 ELSE j1
        e1 == DigitRunEnd(s, j2)
        e2 == DigitRunEnd(s, e1 + 1)
    IN  IF e1 > j2 /\ Char(s, e1) = "." /\ e2 > e1 + 1
        THEN Some(SubSeq(s, j2, MoreGroupsEnd(s, e2) - 1))
        ELSE None

RECURSIVE TokenCaptures(_, _)
TokenCaptures(s, i) ==
    IF i > Len(s) THEN None
    ELSE IF TokenMatchAt(s, i) # None THEN TokenMatchAt(s, i)
    ELSE TokenCaptures(s, i + 1)

extract_version_from_filename(filename) == TokenCaptures(filename, 1)

MinDistinctVersions == 3

\* Variant: the keywords are looked up in the name as written, without
\* lowercasing it.
is_continuous_release_CaseSensitive(release_name, assets) ==
    IF \E kw \in Keywords : Contains(release_name, kw)
    THEN TRUE
    ELSE LET versions ==
               {extract_version_from_filename(assets[i].name[1])[1] :
                  i \in {k \in 1..Len(assets) :
                           /\ IsSome(assets[k].name)
                           /\ IsSome(extract_version_from_filename(assets[k].name[1]))}}
         IN  Cardinality(versions) >= MinDistinctVersions

is_continuous_release(release_name, assets) ==
    IF \E kw \in Keywords : Contains(ToLowercase(release_name), kw)
    THEN TRUE
    ELSE LET versions ==
               {extract_version_from_filename(assets[i].name[1])[1] :
                  i \in {k \in 1..Len(assets) :
                           /\ IsSome(assets[k].name)
                           /\ IsSome(extract_version_from_filename(assets[k].name[1]))}}
         IN  Cardinality(versions) >= MinDistinctVersions

(***************************************************************************)
(* filter.rs: filter_appimages                                             *)
(***************************************************************************)
ChecksumSuffixes == {".sha256sum", ".md5", ".sha256", ".sha512", ".md5sum"}

AssetName(asset) == UnwrapOr(asset.name, "")

\* The body of the loop for one asset: is it pushed to `filtered`?
KeepAsset(asset, assets, include_checksums, target_arch) ==
    LET name == AssetName(asset)
        arch == extract_architecture(name)
    IN  IF EndsWith(name, ".AppImage")
        THEN CASE target_arch = "All" -> TRUE
               [] target_arch = "X86_64" -> arch = Some("x86_64") \/ arch = None
               [] target_arch = "Aarch64" -> arch = Some("aarch64")
        ELSE /\ include_checksums
             /\ \E suf \in ChecksumSuffixes : EndsWith(name, suf)
             /\ LET base_name == SplitFirst(name, ".")
                IN  \E k \in 1..Len(assets) :
                       /\ StartsWith(AssetName(assets[k]), base_name)
                       /\ EndsWith(AssetName(assets[k]), ".AppImage")

filter_appimages(assets, include_checksums, target_arch) ==
    SelectSeq(assets, LAMBDA a : KeepAsset(a, assets, include_checksums, target_arch))

(***************************************************************************)
(* chrono: NaiveDateTime::parse_from_str(s, "%Y-%m-%dT%H:%M:%SZ") on the   *)
(* fixed-width wire form YYYY-MM-DDTHH:MM:SSZ, with chrono's range checks  *)
(* on the fields; any other string is taken not to parse (the strings of   *)
(* this model are of the wire form or far from it).  A NaiveDateTime is    *)
(* the pair <<date, time>>, ordered as chrono orders it: by date, then by  *)
(* time.                                                                   *)
(***************************************************************************)
DigitVal(c) ==
    CASE c = "0" -> 0 [] c = "1" -> 1 [] c = "2" -> 2 [] c = "3" -> 3
      [] c = "4" -> 4 [] c = "5" -> 5 [] c = "6" -> 6 [] c = "7" -> 7
      [] c = "8" -> 8 [] c = "9" -> 9

RECURSIVE Num(_)
Num(s) ==
    IF Len(s) = 0 THEN 0
    ELSE 10 * Num(SubSeq(s, 1, Len(s) - 1)) + DigitVal(SubSeq(s, Len(s), Len(s)))

AllDigits(s) == \A i \in 1..Len(s) : IsDigit(Char(s, i))

IsLeap(y) == (y % 4 = 0 /\ y % 100 # 0) \/ y % 400 = 0

DaysIn(y, m) ==
    IF m = 2 THEN (IF IsLeap(y) THEN 29 ELSE 28)
    ELSE IF m \in {4, 6, 9, 11} THEN 30 ELSE 31

NaiveDateTime(y, mo, d, h, mi, sec) ==
    <<(y * 12 + (mo - 1)) * 31 + (d - 1), (h * 60 + mi) * 61 + sec>>

DtLess(a, b) == a[1] < b[1] \/ (a[1] = b[1] /\ a[2] < b[2])

parse_from_str(s) ==
    LET y == Num(SubSeq(s, 1, 4))
        mo == Num(SubSeq(s, 6, 7))
        d == Num(SubSeq(s, 9, 10))
        h == Num(SubSeq(s, 12, 13))
        mi == Num(SubSeq(s, 15, 16))
        sec == Num(SubSeq(s, 18, 19))
    IN  IF /\ Len(s) = 20
           /\ AllDigits(SubSeq(s, 1, 4)) /\ Char(s, 5) = "-"
           /\ AllDigits(SubSeq(s, 6, 7)) /\ Char(s, 8) = "-"
           /\ AllDigits(SubSeq(s, 9, 10)) /\ Char(s, 11) = "T"
           /\ AllDigits(SubSeq(s, 12, 13)) /\ Char(s, 14) = ":"
           /\ AllDigits(SubSeq(s, 15, 16)) /\ Char(s, 17) = ":"
           /\ AllDigits(SubSeq(s, 18, 19)) /\ Char(s, 20) = "Z"
           /\ mo \in 1..12 /\ d \in 1..DaysIn(y, mo)
           /\ h \in 0..23 /\ mi \in 0..59 /\ sec \in 0..60
        THEN Some(NaiveDateTime(y, mo, d, h, mi, sec))
        ELSE None

(***************************************************************************)
(* filter.rs: keep_latest_versions                                         *)
(***************************************************************************)
SentinelDt == NaiveDateTime(2015, 1, 1, 0, 0, 0)

\* parse_from_str(..).unwrap_or(2015-01-01 00:00:00)
DedupDt(item) == UnwrapOr(parse_from_str(item.published_at), SentinelDt)

DedupKey(item) == <<item.repo, item.architecture>>

\* Variant: >= in place of >, so that a later entity wins a tie.
ShouldUpdate_NonStrict(latest, item) ==
    IF DedupKey(item) \notin DOMAIN latest THEN TRUE
    ELSE ~DtLess(DedupDt(item), DedupDt(latest[DedupKey(item)]))

\* `update`: does `item` replace what `latest` holds for its key?
ShouldUpdate(latest, item) ==
    IF DedupKey(item) \notin DOMAIN latest THEN TRUE
    ELSE DtLess(DedupDt(latest[DedupKey(item)]), DedupDt(item))

\* The for loop over `results`, from index i on, with the map so far.
RECURSIVE LatestFold(_, _, _)
LatestFold(items, i, latest) ==
    IF i > Len(items) THEN latest
    ELSE LatestFold(items, i + 1,
           IF ShouldUpdate(latest, items[i])
           THEN [k \in DOMAIN latest \cup {DedupKey(items[i])} |->
                   IF k = DedupKey(items[i]) THEN items[i] ELSE latest[k]]
           ELSE latest)

LatestMap(items) == LatestFold(items, 1, [k \in {} |-> {}])

\* latest.values().collect(): HashMap iteration order is unspecified, so the
\* returned Vec is any ordering of the map's values.
keep_latest_versions(items) ==
    LET latest == LatestMap(items)
        n == Cardinality(DOMAIN latest)
    IN  {[i \in 1..n |-> latest[f[i]]] :
           f \in {g \in [1..n -> DOMAIN latest] :
                    \A a, b \in 1..n : a # b => g[a] # g[b]}}

(***************************************************************************)
(* Inputs of a run: the command line and the records of the dump files.    *)
(* A JSON member that is missing or of the wrong type is None.             *)
(***************************************************************************)
MaxFiles == 2

MaxLines == 3

Asset(n) == [name |-> Some(n), browser_download_url |-> Some("https://dl/" \o n)]

Release(name, tag, published, assets) ==
    [name |-> name, tag_name |-> tag, published_at |-> published, assets |-> assets]

Event(type, created, repo, release) ==
    [type |-> Some(type), created_at |-> created, repo_name |-> repo,
     release |-> release]

InWindow == Some("2023-03-01T10:00:00Z")

Jan2023 == Some("2023-01-01T00:00:00Z")

Jun2023 == Some("2023-06-01T00:00:00Z")

FooBar == Some("Foo/Bar")

Release1 ==
    Release(Some("Release 1.0.0"), Some("v1.0.0"), Jan2023,
            Some(<<Asset("app.sha256sum"), Asset("app-x86_64.AppImage"),
                   Asset("app-aarch64.AppImage"), Asset("notes.txt")>>))

Release2 ==
    Release(Some("Release 2.0.0"), Some("v2.0.0"), Jun2023,
            Some(<<Asset("app-aarch64.AppImage"), Asset("app.AppImage")>>))

ReleaseTie ==
    Release(Some("Tools"), None, Jan2023,
            Some(<<Asset("tool-1.0-x86_64.AppImage"), Asset("tool-1.0-arm64.AppImage"),
                   Asset("tool-1.1.AppImage")>>))

ReleasePlain ==
    Release(Some("Release 1.0.0"), Some("v1.0.0"), Jan2023,
            Some(<<Asset("app.AppImage"), Asset("app-arm64.AppImage")>>))

Events ==
    { Event("PushEvent", InWindow, FooBar, None),
      Event("ReleaseEvent", None, FooBar, Some(ReleasePlain)),
      Event("ReleaseEvent", Some("2023-03-01 10:00"), FooBar, Some(ReleasePlain)),
      Event("ReleaseEvent", Some("2024-02-01T00:00:00Z"), FooBar, Some(ReleasePlain)),
      Event("ReleaseEvent", InWindow, FooBar, None),
      Event("ReleaseEvent", InWindow, FooBar,
            Some(Release(Some("Release 1.0.0"), Some("v1.0.0"), Jan2023, None))),
      Event("ReleaseEvent", InWindow, None, Some(ReleasePlain)),
      Event("ReleaseEvent", InWindow, FooBar, Some(Release1)),
      Event("ReleaseEvent", Some("2023-06-01T12:30:00Z"), FooBar, Some(Release2)),
      Event("ReleaseEvent", InWindow, FooBar, Some(ReleaseTie)),
      Event("ReleaseEvent", InWindow, FooBar,
            Some(Release(Some("v1.2.3 Nightly Build"), Some("v1.2.3"), Jun2023,
                         Some(<<Asset("app.AppImage"), Asset("app-aarch64.AppImage")>>)))),
      Event("ReleaseEvent", InWindow, FooBar,
            Some(Release(Some("Release 2.0.0"), Some("v2.0.0"), Jun2023,
                         Some(<<Asset("a-1.0-aarch64.AppImage"), Asset("a-1.1-aarch64.AppImage"),
                                Asset("a-1.2-arm64.AppImage"), Asset("a-1.2-x86_64.AppImage")>>)))),
      Event("ReleaseEvent", InWindow, FooBar,
            Some(Release(None, None, None,
                         Some(<<Asset("app-x86_64.AppImage"), Asset("app-arm64.AppImage")>>)))),
      Event("ReleaseEvent", InWindow, FooBar,
            Some(Release(Some("Docs"), Some("v1.0.0"), Jan2023,
                         Some(<<Asset("notes.txt"), [name |-> None, browser_download_url |-> None]>>)))) }

\* --start-time / --end-time as main resolves them: the year 2023 under
\* every architecture mode and checksum flag, and the single day 2023-06-01.
Year2023 == <<NaiveDateTime(2023, 1, 1, 0, 0, 0), NaiveDateTime(2023, 12, 31, 23, 0, 0)>>

Day20230601 == <<NaiveDateTime(2023, 6, 1, 0, 0, 0), NaiveDateTime(2023, 6, 1, 23, 0, 0)>>

Arch == {"X86_64", "Aarch64", "All"}

Args ==
    [start_dt : {Year2023[1]}, end_dt : {Year2023[2]},
     include_checksums : BOOLEAN, arch : Arch]
    \cup
    [start_dt : {Day20230601[1]}, end_dt : {Day20230601[2]},
     include_checksums : {FALSE}, arch : {"All"}]

(***************************************************************************)
(* extractor.rs: process_file, one line of the dump at a time              *)
(***************************************************************************)
\* The struct literal pushed for one accepted asset.
AppImageRelease(ev, asset, target_arch) ==
    LET inferred == extract_architecture(AssetName(asset))
        release == ev.release[1]
    IN  [repo |-> ev.repo_name[1],
         release_name |-> release.name,
         tag_name |-> release.tag_name,
         published_at |-> UnwrapOr(release.published_at, ""),
         appimage_name |-> AssetName(asset),
         download_url |-> UnwrapOr(asset.browser_download_url, ""),
         architecture |-> IF target_arch \in {"All", "X86_64"} /\ inferred = None
                          THEN Some("x86_64") ELSE inferred,
         package_name |-> get_package_name(ev.repo_name[1]),
         version |-> extract_version_4digit(release.tag_name, asset.name)]

\* The creation time the window test uses.
EventDt(ev, start_dt) ==
    UnwrapOr(parse_from_str(UnwrapOr(ev.created_at, "")), start_dt)

\* The body of the `for line` loop for one parsed record: where the body
\* leaves off, the accepted assets and the entities pushed.
ProcessRecord(ev, a) ==
    LET dt == EventDt(ev, a.start_dt)
        skip(why) == [outcome |-> why, appimages |-> <<>>, pushed |-> <<>>]
    IN  IF ev.type # Some("ReleaseEvent") THEN skip("not_release")
        ELSE IF DtLess(dt, a.start_dt) \/ DtLess(a.end_dt, dt) THEN skip("out_of_window")
        ELSE IF ev.release = None \/ ev.release[1].assets = None THEN skip("no_assets")
        ELSE LET accepted == filter_appimages(ev.release[1].assets[1],
                                              a.include_checksums, a.arch)
                 release_name == UnwrapOr(ev.release[1].name, "")
             IN  IF accepted = <<>> THEN skip("no_appimages")
                 ELSE IF is_continuous_release(release_name, accepted)
                 THEN [outcome |-> "continuous", appimages |-> accepted, pushed |-> <<>>]
                 ELSE IF ev.repo_name = None
                 THEN [outcome |-> "panic", appimages |-> accepted, pushed |-> <<>>]
                 ELSE [outcome |-> "pushed", appimages |-> accepted,
                       pushed |-> [i \in 1..Len(accepted) |->
                                     AppImageRelease(ev, accepted[i], a.arch)]]

\* ProcessRecord for every command line and record of the run, computed
\* once: comparing the function makes TLC enumerate and keep it.
RecordTable ==
    LET t == [a \in Args, ev \in Events |->
                ProcessRecord(ev, a)]
    IN  IF t = t THEN t ELSE t

\* Variant: process_file returns without deduplicating.
EndOfFileResults_NoDedup(items) == {items}

\* Variant: the deduplication walks the collection from its end.
EndOfFileResults_Reversed(items) ==
    keep_latest_versions([i \in 1..Len(items) |-> items[Len(items) + 1 - i]])

\* What process_file leaves in *results when it returns Ok.
EndOfFileResults(items) == keep_latest_versions(items)

NoEvent == Event("", None, None, None)

PipeInit ==
    /\ args \in Args
    /\ results = <<>>
    /\ pc = "main"
    /\ fileNo = 0
    /\ linesRead = 0
    /\ hist = <<>>
    /\ event = NoEvent
    /\ appimages = <<>>
    /\ pushed = <<>>
    /\ outcome = "none"
    /\ dedups = 0

Init ==
    /\ PipeInit
    /\ fnIn = <<>>
    /\ fnOut = <<>>

\* main: the next (url, filename) is downloaded and process_file is called;
\* the locals of the new call hold nothing yet.
OpenFile ==
    /\ pc = "main"
    /\ fileNo < MaxFiles
    /\ pc' = "reading"
    /\ fileNo' = fileNo + 1
    /\ event' = NoEvent
    /\ outcome' = "none"
    /\ appimages' = <<>>
    /\ pushed' = <<>>
    /\ UNCHANGED <<args, results, linesRead, hist, dedups, fnIn, fnOut>>

\* process_file: the next line parses as JSON and goes through the loop body.
ProcessLine(ev) ==
    /\ pc = "reading"
    /\ linesRead < MaxLines
    /\ LET r == RecordTable[args, ev]
       IN  /\ event' = ev
           /\ outcome' = r.outcome
           /\ appimages' = r.appimages
           /\ pushed' = r.pushed
           /\ results' = results \o r.pushed
           /\ hist' = hist \o r.pushed
           /\ pc' = IF r.outcome = "panic" THEN "panic" ELSE "reading"
    /\ linesRead' = linesRead + 1
    /\ UNCHANGED <<args, fileNo, dedups, fnIn, fnOut>>

\* process_file: the next line cannot be read or is not JSON; `?` returns
\* the error, and main returns it in turn.
BadLine ==
    /\ pc = "reading"
    /\ linesRead < MaxLines
    /\ pc' = "err"
    /\ linesRead' = linesRead + 1
    /\ event' = NoEvent
    /\ outcome' = "error"
    /\ appimages' = <<>>
    /\ pushed' = <<>>
    /\ UNCHANGED <<args, results, fileNo, hist, dedups, fnIn, fnOut>>

\* process_file: the lines are exhausted; deduplicate and return Ok.
EndOfFile ==
    /\ pc = "reading"
    /\ results' \in EndOfFileResults(results)
    /\ dedups' = dedups + 1
    /\ pc' = "main"
    /\ UNCHANGED <<args, fileNo, linesRead, hist, event, appimages, pushed,
                   outcome, fnIn, fnOut>>

\* main: the urls are exhausted; the results are written out.
Finish ==
    /\ pc = "main"
    /\ pc' = "done"
    /\ UNCHANGED <<args, results, fileNo, linesRead, hist, event, appimages,
                   pushed, outcome, dedups, fnIn, fnOut>>

Next ==
    \/ OpenFile
    \/ \E ev \in Events : ProcessLine(ev)
    \/ BadLine
    \/ EndOfFile
    \/ Finish

Spec == Init /\ [][Next]_vars

(***************************************************************************)
(* Properties of the run                                                   *)
(***************************************************************************)
Range(seq) == {seq[i] : i \in 1..Len(seq)}

Values(map) == {map[k] : k \in DOMAIN map}

IsPrefix(a, b) == Len(a) <= Len(b) /\ SubSeq(b, 1, Len(a)) = a

Handled == outcome \notin {"none", "error"}

\* C3: a ReleaseEvent record whose created_at is missing or does not parse
\* is outside every window: no entity derived from it is added.
C3_BadCreatedAtSkipped ==
    ( /\ Handled
      /\ event.type = Some("ReleaseEvent")
      /\ parse_from_str(UnwrapOr(event.created_at, "")) = None )
    => pushed = <<>>

\* C4: a JSON record of a missing or unexpected shape (no payload.release, no
\* assets array, no repo.name) is skipped: it adds no entity and
\* process_file goes on to the next line instead of failing.
MissingShape(ev) ==
    \/ ev.release = None
    \/ ev.release[1].assets = None
    \/ ev.repo_name = None

C4_MissingShapeSkipped ==
    (Handled /\ MissingShape(event)) => (pushed = <<>> /\ pc = "reading")

\* C5: every entity process_file adds has the filename of a primary binary,
\* a name ending with .AppImage, as its asset name, whatever the
\* architecture mode and the include-checksums flag.
C5_EntitiesArePrimaryBinaries ==
    \A i \in 1..Len(pushed) : EndsWith(pushed[i].appimage_name, ".AppImage")

\* C6: under architecture mode aarch64 every entity produced has
\* architecture aarch64, for both values of the include-checksums flag.
C6_Aarch64ModeOnlyAarch64 ==
    args.arch = "Aarch64" =>
        \A i \in 1..Len(pushed) : pushed[i].architecture = Some("aarch64")

(***************************************************************************)
(* C8, stated without the regex engine: a loose version token is a string  *)
(* of two or more dot-separated digit groups; the token of a filename is   *)
(* the longest one that starts at the leftmost position where one starts.  *)
(***************************************************************************)
IsLooseToken(x) ==
    /\ Len(x) >= 3
    /\ \A i \in 1..Len(x) : IsDigit(Char(x, i)) \/ Char(x, i) = "."
    /\ IsDigit(Char(x, 1)) /\ IsDigit(Char(x, Len(x)))
    /\ \E i \in 1..Len(x) : Char(x, i) = "."
    /\ \A i \in 1..(Len(x) - 1) : ~(Char(x, i) = "." /\ Char(x, i + 1) = ".")

TokenSpans(s) ==
    {p \in (1..Len(s)) \X (1..Len(s)) :
        p[1] < p[2] /\ IsLooseToken(SubSeq(s, p[1], p[2]))}

\* None when no token starts anywhere in s.
LooseTokenOf(s) ==
    LET spans == TokenSpans(s)
        first == CHOOSE p \in spans :
                    \A q \in spans : p[1] < q[1] \/ (p[1] = q[1] /\ p[2] >= q[2])
    IN  IF spans = {} THEN None ELSE Some(SubSeq(s, first[1], first[2]))

DistinctTokens(assets) ==
    {LooseTokenOf(AssetName(assets[i])) : i \in 1..Len(assets)} \ {None}

ClaimedKeywords == {"continuous", "continous", "latest", "nightly", "daily", "current"}

NameHasKeyword(name) ==
    \E kw \in ClaimedKeywords : \E i \in 1..Len(name) :
        \A j \in 1..Len(kw) : LowerChar(Char(name, i + j - 1)) = Char(kw, j)

ClaimedExcluded(name, assets) ==
    NameHasKeyword(name) \/ Cardinality(DistinctTokens(assets)) >= 3

\* ClaimedExcluded for every release name and accepted asset list the
\* records of the run give rise to, computed once.
ReleaseEvents == {ev \in Events : ev.release # None}

ClaimedExcludedTable ==
    LET t == [p \in {<<UnwrapOr(ev.release[1].name, ""), RecordTable[a, ev].appimages>> :
                       a \in Args,
                       ev \in ReleaseEvents} |->
                ClaimedExcluded(p[1], p[2])]
    IN  IF t = t THEN t ELSE t

\* C8: a release with accepted assets is excluded as continuous, and then
\* contributes no entity, exactly when its name contains one of the six
\* keywords in any letter case or its accepted assets' filenames carry three
\* or more distinct loose version tokens.
C8_ContinuousExactly ==
    outcome \in {"continuous", "pushed", "panic"} =>
        /\ (outcome = "continuous") <=>
              ClaimedExcludedTable[<<UnwrapOr(event.release[1].name, ""), appimages>>]
        /\ outcome = "continuous" => pushed = <<>>
        /\ outcome = "pushed" => Len(pushed) = Len(appimages)

\* Both grounds for exclusion and a release that is not excluded are met.
C8_Witness ==
    /\ outcome = "continuous"
    /\ ~NameHasKeyword(UnwrapOr(event.release[1].name, ""))
    /\ args.arch = "Aarch64"
    /\ Len(results) > 0

\* C10: after every process_file call that returned Ok, the entities held
\* are those keep_latest_versions gives for the concatenation, in file and
\* line order, of all entities constructed so far: one per key, the same
\* winner, whatever order earlier deduplications returned.
C10_IncrementalEqualsOneShot ==
    pc \in {"main", "done"} =>
        LET latest == LatestMap(hist)
        IN  /\ Range(results) = Values(latest)
            /\ Len(results) = Cardinality(DOMAIN latest)

OnePerKey(items) ==
    \A i, j \in 1..Len(items) : i # j => DedupKey(items[i]) # DedupKey(items[j])

C10_Witness ==
    /\ pc = "main"
    /\ dedups = 2
    /\ \E i, j \in 1..Len(hist) :
          /\ i <= Len(hist) - Len(pushed)
          /\ j > Len(hist) - Len(pushed)
          /\ DedupKey(hist[i]) = DedupKey(hist[j])
          /\ hist[i].published_at = hist[j].published_at
          /\ hist[i] # hist[j]
          /\ hist[i] \in Range(results)

(***************************************************************************)
(* keep_latest_versions on its own: the collection grows one entity at a   *)
(* time and the function is applied to it.                                 *)
(***************************************************************************)
MaxItems == 3

Item(repo, arch, published, asset) ==
    [repo |-> repo, release_name |-> None, tag_name |-> None,
     published_at |-> published, appimage_name |-> asset,
     download_url |-> "https://dl/" \o asset, architecture |-> arch,
     package_name |-> get_package_name(repo),
     version |-> extract_version_4digit(None, Some(asset))]

DedupItems ==
    { Item("Foo/Bar", Some("x86_64"), "2023-01-01T00:00:00Z", "a.AppImage"),
      Item("Foo/Bar", Some("x86_64"), "2023-06-01T00:00:00Z", "a.AppImage"),
      Item("Foo/Bar", Some("x86_64"), "2023-06-01T00:00:00Z", "b.AppImage"),
      Item("Foo/Bar", Some("x86_64"), "", "a.AppImage"),
      Item("Foo/Bar", Some("x86_64"), "2023-06-31T00:00:00Z", "b.AppImage"),
      Item("Foo/Bar", Some("x86_64"), "2014-05-01T00:00:00Z", "a.AppImage"),
      Item("Foo/Bar", Some("x86_64"), "2015-01-01T00:00:00Z", "a.AppImage"),
      Item("Foo/Bar", Some("aarch64"), "2023-01-01T00:00:00Z", "a.AppImage"),
      Item("Foo/Bar", None, "2023-01-01T00:00:00Z", "a.AppImage"),
      Item("Foo/Baz", Some("x86_64"), "2023-01-01T00:00:01Z", "a.AppImage") }

\* The pipeline is not running while a function is exercised on its own.
PipeIdle ==
    /\ args = [start_dt |-> Year2023[1], end_dt |-> Year2023[2],
               include_checksums |-> FALSE, arch |-> "All"]
    /\ results = <<>>
    /\ pc = "idle"
    /\ fileNo = 0
    /\ linesRead = 0
    /\ hist = <<>>
    /\ event = NoEvent
    /\ appimages = <<>>
    /\ pushed = <<>>
    /\ outcome = "none"
    /\ dedups = 0

DedupInit ==
    /\ PipeIdle
    /\ fnIn = <<>>
    /\ fnOut = <<>>

DedupCall(item) ==
    /\ Len(fnIn) < MaxItems
    /\ fnIn' = Append(fnIn, item)
    /\ fnOut' \in keep_latest_versions(fnIn')
    /\ UNCHANGED pipeVars

DedupNext == \E item \in DedupItems : DedupCall(item)

SpecDedup == DedupInit /\ [][DedupNext]_vars

SameKey(i, k) == DedupKey(fnIn[i]) = DedupKey(fnIn[k])

\* C1: the result holds exactly one entity for each (repo, architecture) key
\* of the input; it is an input entity whose published_at (an unparseable
\* one compared as the sentinel) no input entity of the key exceeds, and it
\* comes before every other input entity of the key with that published_at.
C1_OnePerKeyLatestFirst ==
    /\ Len(fnOut) = Cardinality({DedupKey(fnIn[i]) : i \in 1..Len(fnIn)})
    /\ {DedupKey(fnOut[j]) : j \in 1..Len(fnOut)} = {DedupKey(fnIn[i]) : i \in 1..Len(fnIn)}
    /\ \A j \in 1..Len(fnOut) : \E i \in 1..Len(fnIn) :
          /\ fnIn[i] = fnOut[j]
          /\ \A k \in 1..Len(fnIn) : SameKey(i, k) =>
                /\ ~DtLess(DedupDt(fnIn[i]), DedupDt(fnIn[k]))
                /\ k < i => DtLess(DedupDt(fnIn[k]), DedupDt(fnIn[i]))

\* Two different entities of one key tie on the greatest published_at and
\* the earlier one is returned, beside an entity of another key.
C1_Witness ==
    /\ Len(fnOut) = 2
    /\ \E i, k \in 1..Len(fnIn) :
          /\ i < k
          /\ SameKey(i, k)
          /\ fnIn[i] # fnIn[k]
          /\ DedupDt(fnIn[i]) = DedupDt(fnIn[k])
          /\ fnIn[i] \in Range(fnOut)

\* C2: of two input entities with the same key, one with a parseable
\* published_at and one without, the unparseable one is never the one kept,
\* whichever comes first.
C2_ParseableBeatsUnparseable ==
    \A i, k \in 1..Len(fnIn) :
        ( /\ SameKey(i, k)
          /\ parse_from_str(fnIn[i].published_at) # None
          /\ parse_from_str(fnIn[k].published_at) = None )
        => fnIn[k] \notin Range(fnOut)

(***************************************************************************)
(* extract_version_4digit on its own: the tag grows one character at a     *)
(* time, beside a fixed filename, and the function is applied to the pair. *)
(***************************************************************************)
MaxTagLen == 7

TagChars == {"1", "2", ".", "v"}

VersionFilenames ==
    {None, Some("app.AppImage"), Some("app-3.14.15.9.2-x86_64.AppImage"),
     Some("tool_v0.7.21.AppImage")}

VersionInit ==
    /\ PipeIdle
    /\ fnIn \in [tag : {None, Some("")}, filename : VersionFilenames]
    /\ fnOut = extract_version_4digit(fnIn.tag, fnIn.filename)

VersionCall(c) ==
    /\ fnIn.tag # None
    /\ Len(fnIn.tag[1]) < MaxTagLen
    /\ fnIn' = [fnIn EXCEPT !.tag = Some(fnIn.tag[1] \o c)]
    /\ fnOut' = extract_version_4digit(fnIn'.tag, fnIn'.filename)
    /\ UNCHANGED pipeVars

VersionNext == \E c \in TagChars : VersionCall(c)

SpecVersion == VersionInit /\ [][VersionNext]_vars

\* The dot-separated groups of x.
RECURSIVE DotGroups(_)
DotGroups(x) ==
    LET head == SplitFirst(x, ".")
    IN  IF Len(head) = Len(x) THEN <<x>>
        ELSE <<head>> \o DotGroups(SubSeq(x, Len(head) + 2, Len(x)))

IsDigitGroups(x, counts) ==
    LET groups == DotGroups(x)
    IN  /\ Len(groups) \in counts
        /\ \A i \in 1..Len(groups) : Len(groups[i]) > 0 /\ AllDigits(groups[i])

\* The spans of s that read as three or four dot-separated digit groups.
VersionSpans(s) ==
    {p \in (1..Len(s)) \X (1..Len(s)) :
        /\ p[1] + 4 <= p[2]
        /\ IsDigit(Char(s, p[1]))
        /\ IsDigit(Char(s, p[2]))
        /\ IsDigitGroups(SubSeq(s, p[1], p[2]), {3, 4})}

PadToFour(x) == IF Len(DotGroups(x)) = 3 THEN x \o ".0" ELSE x

\* The first match in src, leftmost and the longest there, padded to four
\* groups; None when src is absent or holds no match.
ClaimedVersionIn(src) ==
    LET spans == IF src = None THEN {} ELSE VersionSpans(src[1])
        first == CHOOSE p \in spans :
                    \A q \in spans : p[1] < q[1] \/ (p[1] = q[1] /\ p[2] >= q[2])
    IN  IF spans = {} THEN None
        ELSE Some(PadToFour(SubSeq(src[1], first[1], first[2])))

\* ClaimedVersionIn for the filenames, computed once.
ClaimedFilenameVersion ==
    LET t == [f \in VersionFilenames |-> ClaimedVersionIn(f)]
    IN  IF t = t THEN t ELSE t

\* C7: the result is four dot-separated all-digit groups: those of the
\* first match in the tag when the tag matches, otherwise those of the first
\* match in the filename, a missing fourth group written as 0, and 1.0.0.0
\* when neither matches.
C7_VersionFourGroups ==
    LET fromTag == ClaimedVersionIn(fnIn.tag)
        fromFile == ClaimedFilenameVersion[fnIn.filename]
    IN  /\ IsDigitGroups(fnOut, {4})
        /\ fnOut = IF fromTag # None THEN fromTag[1]
                   ELSE IF fromFile # None THEN fromFile[1]
                   ELSE "1.0.0.0"

\* A tag whose first match does not start the tag and has three groups,
\* beside a filename that matches too, with another version.
C7_Witness ==
    /\ ClaimedVersionIn(fnIn.tag) = Some(fnOut)
    /\ ClaimedFilenameVersion[fnIn.filename] \notin {None, Some(fnOut)}
    /\ Char(fnIn.tag[1], 1) = "v"
    /\ Char(fnIn.tag[1], Len(fnIn.tag[1])) = "v"
    /\ Len(fnOut) = Len(fnIn.tag[1])

====
